---------------------------- MODULE Spec2Model ----------------------------
(***************************************************************************)
(* Model of pkg/normalizer (slo-exporter): the request normalizer that     *)
(* fills the EventKey of HTTP request events.                              *)
(*                                                                         *)
(* Strings that the code splits and joins (paths, event keys) are          *)
(* sequences of tokens: the token "/" is the path separator, the token ":" *)
(* the key separator, every other token is one maximal run of other        *)
(* characters (a path segment, a method, a query value).  The empty string *)
(* is the empty sequence.                                                  *)
(***************************************************************************)
EXTENDS Naturals, Sequences, FiniteSets, TLC

VARIABLES
    config,        \* the *requestNormalizerConfig handed to NewFromConfig
    rn,            \* the *requestNormalizer NewFromConfig returned, or Nil
    err,           \* whether NewFromConfig returned an error
    built,         \* whether NewFromConfig has returned
    inCap,         \* capacity of inputEventsChan (0: unbuffered)
    outCap,        \* capacity of outputEventsChan (0: unbuffered)
    inputChan,     \* events buffered in inputEventsChan
    inputClosed,   \* the producer has closed inputEventsChan
    outputChan,    \* events buffered in outputEventsChan
    outputCloses,  \* number of close(outputEventsChan) executed
    pc,            \* position of Run's goroutine
    newEvent,      \* the loop variable of Run's goroutine
    sent,          \* history: events as the producer sent them
    received,      \* history: events as the consumer received them
    lateSends,     \* history: sends on outputEventsChan after its close
    lazyCompiles,  \* history: regexp.MustCompile calls made by replacer.process
    rawPath,       \* argument of the last direct normalizePath call
    normalized,    \* its result
    renormalized,  \* the result of normalizePath on that result
    called         \* whether normalizePath has been called directly

vars == <<config, rn, err, built, inCap, outCap, inputChan, inputClosed,
          outputChan, outputCloses, pc, newEvent, sent, received, lateSends,
          lazyCompiles, rawPath, normalized, renormalized, called>>

runVars == <<inCap, outCap, inputChan, inputClosed, outputChan, outputCloses,
             pc, newEvent, sent, received, lateSends, lazyCompiles>>

callVars == <<rawPath, normalized, renormalized, called>>

\* The nil pointer.
Nil == [nil |-> TRUE]

-----------------------------------------------------------------------------
(* Bounds of the model.                                                    *)

MaxPathLen == 3     \* tokens in a raw path
MaxRules == 2       \* rewrite rules in a configuration of SpecPath
MaxEvents == 3      \* events the producer sends
MaxChanCap == 1     \* largest channel capacity

-----------------------------------------------------------------------------
(* Constants of normalizer.go.                                             *)

eventKeyFieldSeparator == ":"
numberPlaceholder == "0"
ipPlaceholder == ":ip"
hashPlaceholder == ":hash"
uuidPlaceholder == ":uuid"
imagePlaceholder == ":image"
fontPlaceholder == ":font"
pathItemsSeparator == "/"

-----------------------------------------------------------------------------
(* Path segments of the model and what the library predicates say of them. *)

md5Item == "d41d8cd98f00b204e9800998ecf8427e"
uuidItem == "123e4567-e89b-42d3-a456-426614174000"
ipItem == "10.0.0.1"

IsMD5(item) == item = md5Item
IsSHA1(item) == FALSE
IsSHA256(item) == FALSE
IsNumeric(item) == item \in {"42", "0"}
IsHexadecimal(item) == item \in {"42", "0", md5Item}
IsUUID(item) == item = uuidItem
IsUUIDv4(item) == item = uuidItem
IsIP(item) == item = ipItem
imageExtensionRegex(item) == item \in {"images.png"}
fontExtensionRegex(item) == item \in {"font.woff"}

-----------------------------------------------------------------------------
(* strings.Split, strings.Join and path.Clean on token sequences.          *)

RECURSIVE SplitFrom(_, _, _, _, _)
SplitFrom(s, sep, i, cur, acc) ==
    IF i > Len(s) THEN Append(acc, cur)
    ELSE IF s[i] = sep THEN SplitFrom(s, sep, i + 1, "", Append(acc, cur))
    ELSE SplitFrom(s, sep, i + 1, cur \o s[i], acc)

\* strings.Split(s, sep): k separators give k+1 items, empty ones included.
Split(s, sep) == SplitFrom(s, sep, 1, "", <<>>)

RECURSIVE JoinFrom(_, _, _)
JoinFrom(items, sep, i) ==
    IF i > Len(items) THEN <<>>
    ELSE (IF i > 1 THEN <<sep>> ELSE <<>>)
         \o (IF items[i] = "" THEN <<>> ELSE <<items[i]>>)
         \o JoinFrom(items, sep, i + 1)

\* strings.Join(items, sep)
Join(items, sep) == JoinFrom(items, sep, 1)

RECURSIVE CleanElems(_, _, _, _)
\* The elements path.Clean keeps: empty and "." elements are dropped, ".."
\* removes the element before it, is dropped at the root, and is kept at
\* the front of a path that is not rooted.
CleanElems(items, rooted, i, out) ==
    IF i > Len(items) THEN out
    ELSE IF items[i] = "" \/ items[i] = "." THEN CleanElems(items, rooted, i + 1, out)
    ELSE IF items[i] = ".." THEN
        IF Len(out) > 0 /\ out[Len(out)] # ".."
            THEN CleanElems(items, rooted, i + 1, SubSeq(out, 1, Len(out) - 1))
        ELSE IF rooted THEN CleanElems(items, rooted, i + 1, out)
        ELSE CleanElems(items, rooted, i + 1, Append(out, ".."))
    ELSE CleanElems(items, rooted, i + 1, Append(out, items[i]))

\* path.Clean(p)
Clean(p) ==
    IF p = <<>> THEN <<".">>
    ELSE LET rooted == p[1] = pathItemsSeparator
             elems == CleanElems(Split(p, pathItemsSeparator), rooted, 1, <<>>)
         IN IF rooted THEN <<pathItemsSeparator>> \o Join(elems, pathItemsSeparator)
            ELSE IF elems = <<>> THEN <<".">>
            ELSE Join(elems, pathItemsSeparator)

-----------------------------------------------------------------------------
(* Regular expressions of the model: the patterns and what package regexp  *)
(* says of them.                                                           *)

reExact42 == "^/42$"
reExact0 == "^/0$"
reAny == ""
reInvalid == "("

\* regexp.Compile(re) succeeds
CompileOk(re) == re \in {reExact42, reExact0, reAny}

\* The *regexp.Regexp that regexp.Compile and regexp.MustCompile return.
MustCompile(re) == [expr |-> re]

\* (*Regexp).MatchString(path) of the pattern re, compiled
MatchString(re, path) ==
    CASE re = reExact42 -> path = <<"/", "42">>
      [] re = reExact0 -> path = <<"/", "0">>
      [] re = reAny -> TRUE
      [] OTHER -> FALSE

\* replacer.process
process(n, path) ==
    LET regexpCompiled == IF n.regexpCompiled = Nil THEN MustCompile(n.Regexp)
                          ELSE n.regexpCompiled
    IN IF MatchString(regexpCompiled.expr, path) THEN n.Replacement ELSE path

\* Whether this call of replacer.process compiles the pattern (line 47).
processCompiles(n) == IF n.regexpCompiled = Nil THEN 1 ELSE 0

RECURSIVE applyRulesReversed(_, _, _)
\* Mutant of applyRules: the rules run from the last to the first.
applyRulesReversed(replaceRules, path, i) ==
    IF i > Len(replaceRules) THEN path
    ELSE process(replaceRules[i], applyRulesReversed(replaceRules, path, i + 1))

RECURSIVE applyRules(_, _, _)
\* for _, rule := range rn.replaceRules { rawPath = rule.process(rawPath) }
applyRules(replaceRules, path, i) ==
    IF i > Len(replaceRules) THEN path
    ELSE applyRules(replaceRules, process(replaceRules[i], path), i + 1)

RECURSIVE precompileFrom(_, _)
\* requestNormalizer.precompileRegexps from rule i on: the rules as the loop
\* leaves them and whether it returned an error.
precompileFrom(replaceRules, i) ==
    IF i > Len(replaceRules) THEN [err |-> FALSE, replaceRules |-> replaceRules]
    ELSE IF ~CompileOk(replaceRules[i].Regexp)
        THEN [err |-> TRUE, replaceRules |-> replaceRules]
    ELSE precompileFrom(
            [replaceRules EXCEPT ![i].regexpCompiled = MustCompile(replaceRules[i].Regexp)],
            i + 1)

\* Mutant of precompileRegexps: the compiled pattern is stored in the loop's
\* copy rep of the rule, not in rn.replaceRules[i].
precompileRegexpsOnCopy(replaceRules) ==
    [err |-> precompileFrom(replaceRules, 1).err, replaceRules |-> replaceRules]

precompileRegexps(replaceRules) == precompileFrom(replaceRules, 1)

-----------------------------------------------------------------------------
(* requestNormalizer.normalizePath                                        *)

\* Mutant of sanitizeItem: numbers are tested before hashes.
sanitizeItemNumbersFirst(n, item, i, itemsCount) ==
    IF item = "" THEN item
    ELSE IF n.sanitizeNumbers /\ (IsNumeric(item) \/ IsHexadecimal(item))
        THEN numberPlaceholder
    ELSE IF n.sanitizeHashes /\ (IsMD5(item) \/ IsSHA1(item) \/ IsSHA256(item))
        THEN hashPlaceholder
    ELSE IF n.sanitizeUids /\ (IsUUID(item) \/ IsUUIDv4(item))
        THEN uuidPlaceholder
    ELSE IF n.sanitizeIps /\ IsIP(item)
        THEN ipPlaceholder
    ELSE IF i = itemsCount THEN
        IF n.sanitizeImages /\ imageExtensionRegex(item) THEN imagePlaceholder
        ELSE IF n.sanitizeFonts /\ fontExtensionRegex(item) THEN fontPlaceholder
        ELSE item
    ELSE item

\* Mutant of sanitizeItem: images and fonts are tested on every segment.
sanitizeItemAnySegment(n, item, i, itemsCount) ==
    IF item = "" THEN item
    ELSE IF n.sanitizeHashes /\ (IsMD5(item) \/ IsSHA1(item) \/ IsSHA256(item))
        THEN hashPlaceholder
    ELSE IF n.sanitizeNumbers /\ (IsNumeric(item) \/ IsHexadecimal(item))
        THEN numberPlaceholder
    ELSE IF n.sanitizeUids /\ (IsUUID(item) \/ IsUUIDv4(item))
        THEN uuidPlaceholder
    ELSE IF n.sanitizeIps /\ IsIP(item)
        THEN ipPlaceholder
    ELSE IF n.sanitizeImages /\ imageExtensionRegex(item) THEN imagePlaceholder
    ELSE IF n.sanitizeFonts /\ fontExtensionRegex(item) THEN fontPlaceholder
    ELSE item

\* The body of the loop over pathItems: what pathItems[i] holds after it.
\* i counts from 1, so the code's i+1 == itemsCount is i = itemsCount.
sanitizeItem(n, item, i, itemsCount) ==
    IF item = "" THEN item
    ELSE IF n.sanitizeHashes /\ (IsMD5(item) \/ IsSHA1(item) \/ IsSHA256(item))
        THEN hashPlaceholder
    ELSE IF n.sanitizeNumbers /\ (IsNumeric(item) \/ IsHexadecimal(item))
        THEN numberPlaceholder
    ELSE IF n.sanitizeUids /\ (IsUUID(item) \/ IsUUIDv4(item))
        THEN uuidPlaceholder
    ELSE IF n.sanitizeIps /\ IsIP(item)
        THEN ipPlaceholder
    ELSE IF i = itemsCount THEN
        IF n.sanitizeImages /\ imageExtensionRegex(item) THEN imagePlaceholder
        ELSE IF n.sanitizeFonts /\ fontExtensionRegex(item) THEN fontPlaceholder
        ELSE item
    ELSE item

\* The loop over pathItems.
sanitizeItems(n, pathItems) ==
    [i \in 1..Len(pathItems) |-> sanitizeItem(n, pathItems[i], i, Len(pathItems))]

\* Mutant of normalizePath: the raw path is split as it is and the joined
\* result is cleaned.
normalizePathCleanLast(n, path) ==
    IF path = <<>> THEN <<pathItemsSeparator>>
    ELSE LET rewritten == applyRules(n.replaceRules, path, 1)
             pathItems == Split(rewritten, pathItemsSeparator)
         IN Clean(Join(sanitizeItems(n, pathItems), pathItemsSeparator))

\* Mutant of normalizePath: the empty path is not returned early.
normalizePathNoShortCircuit(n, path) ==
    LET rewritten == applyRules(n.replaceRules, path, 1)
        pathItems == Split(Clean(rewritten), pathItemsSeparator)
    IN Join(sanitizeItems(n, pathItems), pathItemsSeparator)

normalizePath(n, path) ==
    IF path = <<>> THEN <<pathItemsSeparator>>
    ELSE LET rewritten == applyRules(n.replaceRules, path, 1)
             pathItems == Split(Clean(rewritten), pathItemsSeparator)
         IN Join(sanitizeItems(n, pathItems), pathItemsSeparator)

\* The regexp.MustCompile calls of one normalizePath call (line 47, through
\* the loop of lines 129-131).
RECURSIVE compilesFrom(_, _)
compilesFrom(replaceRules, i) ==
    IF i > Len(replaceRules) THEN 0
    ELSE processCompiles(replaceRules[i]) + compilesFrom(replaceRules, i + 1)

normalizePathCompiles(n, path) ==
    IF path = <<>> THEN 0 ELSE compilesFrom(n.replaceRules, 1)

-----------------------------------------------------------------------------
(* requestNormalizer.getNormalizedEventKey                                 *)

RECURSIVE QueryValues(_, _)
\* event.URL.Query()[name]: the values bound to name, in the order of the
\* query string.  A query string is a sequence of <<name, value>> pairs.
QueryValues(query, name) ==
    IF query = <<>> THEN <<>>
    ELSE (IF Head(query)[1] = name THEN <<Head(query)[2]>> ELSE <<>>)
         \o QueryValues(Tail(query), name)

\* The ok of the map lookup event.URL.Query()[name].
QueryHas(query, name) == \E i \in 1..Len(query) : query[i][1] = name

RECURSIVE JoinStringsFrom(_, _, _)
JoinStringsFrom(strs, sep, i) ==
    IF i > Len(strs) THEN <<>>
    ELSE (IF i > 1 THEN <<sep>> ELSE <<>>) \o strs[i]
         \o JoinStringsFrom(strs, sep, i + 1)

\* strings.Join(strs, sep) of strings that are token sequences.
JoinStrings(strs, sep) == JoinStringsFrom(strs, sep, 1)

\* A string of one token, or the empty string.
Str(token) == IF token = "" THEN <<>> ELSE <<token>>

\* Mutant of getNormalizedEventKey: only the first value of the parameter
\* is appended (url.Values.Get).
getNormalizedEventKeyFirstValue(n, event) ==
    LET base == <<Str(event.Method), normalizePath(n, event.Path)>>
        operationNames == QueryValues(event.Query, n.getParamWithEventIdentifier)
        ok == QueryHas(event.Query, n.getParamWithEventIdentifier)
        eventIdentifiers ==
            IF n.getParamWithEventIdentifier # "" /\ ok
                THEN Append(base, Str(operationNames[1]))
            ELSE base
    IN JoinStrings(eventIdentifiers, eventKeyFieldSeparator)

getNormalizedEventKey(n, event) ==
    LET base == <<Str(event.Method), normalizePath(n, event.Path)>>
        operationNames == QueryValues(event.Query, n.getParamWithEventIdentifier)
        ok == QueryHas(event.Query, n.getParamWithEventIdentifier)
        eventIdentifiers ==
            IF n.getParamWithEventIdentifier # "" /\ ok
                THEN base \o [i \in 1..Len(operationNames) |-> Str(operationNames[i])]
            ELSE base
    IN JoinStrings(eventIdentifiers, eventKeyFieldSeparator)

\* Mutant of fillEventKey: the key is computed whether or not the event
\* has one.
fillEventKeyAlways(n, event) ==
    [event EXCEPT !.EventKey = getNormalizedEventKey(n, event)]

\* Lines 195-200 of Run: the event as the loop body leaves it.
fillEventKey(n, event) ==
    IF event.EventKey # <<>> THEN event
    ELSE [event EXCEPT !.EventKey = getNormalizedEventKey(n, event)]

\* The regexp.MustCompile calls of lines 195-200 on this event.
fillEventKeyCompiles(n, event) ==
    IF event.EventKey # <<>> THEN 0 ELSE normalizePathCompiles(n, event.Path)

-----------------------------------------------------------------------------
(* Inputs of the model.                                                    *)

Rule(re, replacement) ==
    [regexpCompiled |-> Nil, Regexp |-> re, Replacement |-> replacement]

ruleLegacy == Rule(reExact42, <<"/", "legacy">>)
ruleUsers == Rule(reExact0, <<"/", "users">>)
ruleAny == Rule(reAny, <<"/", "42">>)
ruleInvalid == Rule(reInvalid, <<"/", "users">>)

RECURSIVE SeqsUpTo(_, _)
\* The sequences over S of length at most k.
SeqsUpTo(S, k) ==
    IF k = 0 THEN {<<>>}
    ELSE LET shorter == SeqsUpTo(S, k - 1)
         IN shorter \cup {Append(s, x) : s \in shorter, x \in S}

Config(param, rules, toggles) ==
    [GetParamWithEventIdentifier |-> param,
     ReplaceRules |-> rules,
     SanitizeHashes |-> toggles[1],
     SanitizeNumbers |-> toggles[2],
     SanitizeUids |-> toggles[3],
     SanitizeIps |-> toggles[4],
     SanitizeImages |-> toggles[5],
     SanitizeFonts |-> toggles[6]]

Toggles == [1..6 -> BOOLEAN]

\* The lists of at most MaxRules valid rules, no rule twice.
RuleLists ==
    {rules \in SeqsUpTo({ruleLegacy, ruleUsers, ruleAny}, MaxRules) :
        \A i, j \in 1..Len(rules) : rules[i] = rules[j] => i = j}

\* Configurations of SpecPath: every setting of the six toggles with every
\* such list.
PathConfigs == {Config("", rules, t) : rules \in RuleLists, t \in Toggles}

PathItems ==
    {"users", "42", md5Item, uuidItem, ipItem, "images.png", "font.woff", ".", ".."}

\* Raw paths: token sequences of at most MaxPathLen tokens in which no two
\* segment tokens are adjacent (a segment is one token).
Paths ==
    {p \in SeqsUpTo(PathItems \cup {pathItemsSeparator}, MaxPathLen) :
        \A i \in 1..(Len(p) - 1) :
            p[i] = pathItemsSeparator \/ p[i + 1] = pathItemsSeparator}

-----------------------------------------------------------------------------
(* NewFromConfig                                                           *)

InitRun ==
    /\ inCap = 0 /\ outCap = 0
    /\ inputChan = <<>> /\ inputClosed = FALSE
    /\ outputChan = <<>> /\ outputCloses = 0
    /\ pc = "idle" /\ newEvent = Nil
    /\ sent = <<>> /\ received = <<>> /\ lateSends = 0 /\ lazyCompiles = 0

InitCall ==
    /\ rawPath = <<>> /\ normalized = <<>> /\ renormalized = <<>>
    /\ called = FALSE

NewFromConfig ==
    /\ ~built
    /\ LET compiled == precompileRegexps(config.ReplaceRules)
           normalizer ==
               [getParamWithEventIdentifier |-> config.GetParamWithEventIdentifier,
                replaceRules |-> compiled.replaceRules,
                sanitizeHashes |-> config.SanitizeHashes,
                sanitizeNumbers |-> config.SanitizeNumbers,
                sanitizeUids |-> config.SanitizeUids,
                sanitizeIps |-> config.SanitizeIps,
                sanitizeImages |-> config.SanitizeImages,
                sanitizeFonts |-> config.SanitizeFonts]
       IN /\ err' = compiled.err
          /\ rn' = IF compiled.err THEN Nil ELSE normalizer
    /\ built' = TRUE
    /\ UNCHANGED <<config, runVars, callVars>>

-----------------------------------------------------------------------------
(* Run: the goroutine, the producer of inputEventsChan and the consumer of *)
(* outputEventsChan.  A channel of capacity 0 hands an event over in one   *)
(* step of sender and receiver together.                                   *)

Event(method, path, query, key) ==
    [id |-> 0, Method |-> method, Path |-> path, Query |-> query, EventKey |-> key]

evUsers ==
    Event("GET", <<"/", "users", "/", "42">>,
          <<(<<"op", "list">>), (<<"op", "summary">>)>>, <<>>)
evPreset == Event("POST", <<"/", "42">>, <<(<<"op", "list">>)>>, <<"preset">>)
evEmpty ==
    Event("GET", <<>>,
          <<(<<"op", "summary">>), (<<"id", "7">>), (<<"op", "list">>),
            (<<"op", "summary">>)>>, <<>>)

Events == {evUsers, evPreset, evEmpty}

allOn == [i \in 1..6 |-> TRUE]
allOff == [i \in 1..6 |-> FALSE]
numbersOnly == [i \in 1..6 |-> i = 2]

RunConfigs ==
    {Config("op", <<>>, numbersOnly),
     Config("", <<ruleLegacy, ruleAny>>, allOn),
     Config("ref", <<ruleUsers>>, allOff),
     Config("op", <<ruleLegacy, ruleInvalid>>, allOn)}

\* Mutant of rangeDone: the loop ends as soon as no event is waiting (a
\* receive that does not block).
rangeDoneWhenEmpty == inputChan = <<>>

\* The loop of line 193 ends: the channel is closed and drained.
rangeDone == inputClosed /\ inputChan = <<>>

\* Run: starts the goroutine.
Run ==
    /\ built /\ rn # Nil /\ pc = "idle"
    /\ pc' = "range"
    /\ UNCHANGED <<config, rn, err, built, inCap, outCap, inputChan, inputClosed,
                   outputChan, outputCloses, newEvent, sent, received, lateSends,
                   lazyCompiles, callVars>>

\* The producer sends on a buffered inputEventsChan.
ProducerSend(e) ==
    /\ ~inputClosed /\ Len(sent) < MaxEvents
    /\ Len(inputChan) < inCap
    /\ LET ev == [e EXCEPT !.id = Len(sent) + 1]
       IN /\ inputChan' = Append(inputChan, ev)
          /\ sent' = Append(sent, ev)
    /\ UNCHANGED <<config, rn, err, built, inCap, outCap, inputClosed, outputChan,
                   outputCloses, pc, newEvent, received, lateSends, lazyCompiles,
                   callVars>>

\* The producer closes inputEventsChan.
ProducerClose ==
    /\ ~inputClosed
    /\ inputClosed' = TRUE
    /\ UNCHANGED <<config, rn, err, built, inCap, outCap, inputChan, outputChan,
                   outputCloses, pc, newEvent, sent, received, lateSends,
                   lazyCompiles, callVars>>

\* Lines 193-200: the goroutine takes the next buffered event and fills its key.
WorkerReceive ==
    /\ pc = "range" /\ inputChan # <<>>
    /\ newEvent' = fillEventKey(rn, Head(inputChan))
    /\ lazyCompiles' = lazyCompiles + fillEventKeyCompiles(rn, Head(inputChan))
    /\ inputChan' = Tail(inputChan)
    /\ pc' = "send"
    /\ UNCHANGED <<config, rn, err, built, inCap, outCap, inputClosed, outputChan,
                   outputCloses, sent, received, lateSends, callVars>>

\* Lines 193-200 on an unbuffered inputEventsChan: the producer's send and
\* the goroutine's receive are one step.
WorkerReceiveSync(e) ==
    /\ pc = "range" /\ inCap = 0
    /\ ~inputClosed /\ Len(sent) < MaxEvents
    /\ LET ev == [e EXCEPT !.id = Len(sent) + 1]
       IN /\ sent' = Append(sent, ev)
          /\ newEvent' = fillEventKey(rn, ev)
          /\ lazyCompiles' = lazyCompiles + fillEventKeyCompiles(rn, ev)
    /\ pc' = "send"
    /\ UNCHANGED <<config, rn, err, built, inCap, outCap, inputChan, inputClosed,
                   outputChan, outputCloses, received, lateSends, callVars>>

\* Mutant of WorkerSend: a send that does not block; the event is dropped
\* when the buffer is full.
WorkerSendNonBlocking ==
    /\ pc = "send" /\ outCap > 0
    /\ outputChan' = IF Len(outputChan) < outCap THEN Append(outputChan, newEvent)
                     ELSE outputChan
    /\ lateSends' = lateSends + (IF outputCloses > 0 THEN 1 ELSE 0)
    /\ newEvent' = Nil
    /\ pc' = "range"
    /\ UNCHANGED <<config, rn, err, built, inCap, outCap, inputChan, inputClosed,
                   outputCloses, sent, received, lazyCompiles, callVars>>

\* Lines 201-202: the send on a buffered outputEventsChan.
WorkerSend ==
    /\ pc = "send" /\ Len(outputChan) < outCap
    /\ outputChan' = Append(outputChan, newEvent)
    /\ lateSends' = lateSends + (IF outputCloses > 0 THEN 1 ELSE 0)
    /\ newEvent' = Nil
    /\ pc' = "range"
    /\ UNCHANGED <<config, rn, err, built, inCap, outCap, inputChan, inputClosed,
                   outputCloses, sent, received, lazyCompiles, callVars>>

\* Lines 201-202 on an unbuffered outputEventsChan: the send and the
\* consumer's receive are one step.
WorkerSendSync ==
    /\ pc = "send" /\ outCap = 0
    /\ received' = Append(received, newEvent)
    /\ lateSends' = lateSends + (IF outputCloses > 0 THEN 1 ELSE 0)
    /\ newEvent' = Nil
    /\ pc' = "range"
    /\ UNCHANGED <<config, rn, err, built, inCap, outCap, inputChan, inputClosed,
                   outputChan, outputCloses, sent, lazyCompiles, callVars>>

\* Lines 192, 203-205: the loop ends and the deferred close runs.
WorkerExit ==
    /\ pc = "range" /\ rangeDone
    /\ outputCloses' = outputCloses + 1
    /\ pc' = "done"
    /\ UNCHANGED <<config, rn, err, built, inCap, outCap, inputChan, inputClosed,
                   outputChan, newEvent, sent, received, lateSends, lazyCompiles,
                   callVars>>

\* The consumer receives from a buffered outputEventsChan.
ConsumerReceive ==
    /\ outputChan # <<>>
    /\ received' = Append(received, Head(outputChan))
    /\ outputChan' = Tail(outputChan)
    /\ UNCHANGED <<config, rn, err, built, inCap, outCap, inputChan, inputClosed,
                   outputCloses, pc, newEvent, sent, lateSends, lazyCompiles,
                   callVars>>

Init ==
    /\ config \in RunConfigs
    /\ rn = Nil /\ err = FALSE /\ built = FALSE
    /\ inCap \in 0..MaxChanCap /\ outCap \in 0..MaxChanCap
    /\ inputChan = <<>> /\ inputClosed = FALSE
    /\ outputChan = <<>> /\ outputCloses = 0
    /\ pc = "idle" /\ newEvent = Nil
    /\ sent = <<>> /\ received = <<>> /\ lateSends = 0 /\ lazyCompiles = 0
    /\ InitCall

Next ==
    \/ NewFromConfig
    \/ Run
    \/ \E e \in Events : ProducerSend(e)
    \/ ProducerClose
    \/ WorkerReceive
    \/ \E e \in Events : WorkerReceiveSync(e)
    \/ WorkerSend
    \/ WorkerSendSync
    \/ WorkerExit
    \/ ConsumerReceive

Spec == Init /\ [][Next]_vars

\* The step of WorkerReceive as it shows in pc: under Spec only WorkerReceive
\* takes the goroutine from "range" to "send" with an event waiting in
\* inputChan, and this step is enabled exactly when WorkerReceive is.
WorkerReceiveStep == pc = "range" /\ inputChan # <<>> /\ pc' = "send"

\* The Go scheduler runs the goroutine whenever it can take a step (its
\* receive of a buffered event, its send, its exit), and the downstream
\* stage keeps receiving from outputEventsChan.
FairSpec ==
    /\ Spec
    /\ WF_vars(Run)
    /\ WF_pc(WorkerReceiveStep)
    /\ WF_vars(WorkerSend \/ WorkerSendSync \/ WorkerExit)
    /\ WF_vars(ConsumerReceive)

-----------------------------------------------------------------------------
(* Properties of Run, checked under Spec and FairSpec.                     *)

\* The event the goroutine holds between its receive and its send.
InFlight == IF pc = "send" THEN <<newEvent>> ELSE <<>>

\* Every event the producer sent, from the oldest: received by the
\* consumer, buffered in the output, held by the goroutine, buffered in
\* the input.
Pipeline == received \o outputChan \o InFlight \o inputChan

\* The events that have passed lines 195-200.
Processed == received \o outputChan \o InFlight

SameRequest(a, b) ==
    a.id = b.id /\ a.Method = b.Method /\ a.Path = b.Path /\ a.Query = b.Query

\* C1: the events the consumer has received, then those still inside the
\* stage, are exactly the events the producer sent, each once and in the
\* order sent; so the received events are always a prefix of the sent
\* ones, and once the goroutine has finished and the output is drained
\* the consumer has received all of them.
C1_StreamDiscipline ==
    /\ Len(Pipeline) = Len(sent)
    /\ \A i \in 1..Len(Pipeline) : SameRequest(Pipeline[i], sent[i])
    /\ (pc = "done" /\ outputChan = <<>>) => Len(received) = Len(sent)

C1_Witness ==
    /\ pc = "done" /\ outputChan = <<>>
    /\ Len(received) = 3
    /\ \E i, j \in 1..3 : sent[i].EventKey = <<>> /\ sent[j].EventKey # <<>>

\* What holds whenever outputEventsChan has been closed.
C2_Closed ==
    /\ outputCloses <= 1
    /\ lateSends = 0
    /\ outputCloses = 1 =>
        /\ inputClosed
        /\ inputChan = <<>> /\ InFlight = <<>>
        /\ Len(received) + Len(outputChan) = Len(sent)

\* C2: the output stream is closed at most once, only after the input
\* stream is closed and every event received from it has been forwarded,
\* and nothing is sent on it after its close; and once the input stream is
\* closed, the running goroutine eventually closes the output stream.
C2_CloseAfterDrain ==
    /\ []C2_Closed
    /\ (inputClosed /\ pc # "idle") ~> (outputCloses = 1)

C2_Witness ==
    /\ outputCloses = 1 /\ Len(sent) = 3 /\ Len(received) = 3

\* C3: an event that arrived with a non-empty EventKey leaves the stage
\* with that EventKey.
C3_KeyedPassThrough ==
    \A i \in 1..Len(Processed) :
        sent[Processed[i].id].EventKey # <<>> =>
            Processed[i].EventKey = sent[Processed[i].id].EventKey

C3_Witness ==
    /\ rn # Nil /\ Len(rn.replaceRules) = 2
    /\ \E i \in 1..Len(received) :
        /\ sent[i].EventKey = <<"preset">>
        /\ received[i].EventKey = <<"preset">>
        /\ getNormalizedEventKey(rn, sent[i]) # <<"preset">>

RECURSIVE C5_Suffix(_)
\* The values of the configured parameter, each after a separator.
C5_Suffix(values) ==
    IF values = <<>> THEN <<>>
    ELSE <<eventKeyFieldSeparator>> \o Str(Head(values)[2]) \o C5_Suffix(Tail(values))

\* The key the claim gives an event that arrives without one.
C5_Key(event) ==
    LET name == rn.getParamWithEventIdentifier
        IsParam(kv) == kv[1] = name
    IN Str(event.Method) \o <<eventKeyFieldSeparator>>
       \o normalizePath(rn, event.Path)
       \o (IF name = "" THEN <<>> ELSE C5_Suffix(SelectSeq(event.Query, IsParam)))

\* C5: an event that arrived without an EventKey leaves with the key
\* Method ":" normalizePath(Path) followed by ":" and a value for every
\* value of the configured parameter, in the order of the query string,
\* duplicates kept; with no parameter configured, or none in the query,
\* the key is Method ":" normalizePath(Path).  GET /users/42 with
\* op=list&op=summary, parameter op and numbers enabled gives
\* GET:/users/0:list:summary.
C5_EventKey ==
    \A i \in 1..Len(Processed) :
        LET arrived == sent[Processed[i].id]
            key == Processed[i].EventKey
        IN arrived.EventKey = <<>> =>
            /\ key = C5_Key(arrived)
            /\ (rn.getParamWithEventIdentifier = ""
                    \/ ~QueryHas(arrived.Query, rn.getParamWithEventIdentifier)) =>
                key = Str(arrived.Method) \o <<":">> \o normalizePath(rn, arrived.Path)
            /\ (/\ rn.getParamWithEventIdentifier = "op"
                /\ rn.replaceRules = <<>> /\ rn.sanitizeNumbers
                /\ SameRequest(arrived, [evUsers EXCEPT !.id = arrived.id])) =>
                key = <<"GET", ":", "/", "users", "/", "0", ":", "list", ":", "summary">>

C5_Witness ==
    /\ rn # Nil /\ rn.getParamWithEventIdentifier = "op"
    /\ \E i \in 1..Len(received) :
        /\ sent[i].EventKey = <<>>
        /\ received[i].EventKey =
              <<"GET", ":", "/", ":", "summary", ":", "list", ":", "summary">>

\* C9: NewFromConfig on a rule list with a pattern that does not compile
\* returns an error and no normalizer, and no event is processed; on a
\* list of valid patterns it returns a normalizer whose rules all hold
\* their compiled pattern, and processing events compiles nothing and
\* leaves the rules as they are.
C9_Construction ==
    built =>
        IF \E i \in 1..Len(config.ReplaceRules) : ~CompileOk(config.ReplaceRules[i].Regexp)
        THEN /\ err /\ rn = Nil
             /\ pc = "idle" /\ Processed = <<>> /\ lazyCompiles = 0
        ELSE /\ ~err /\ rn # Nil
             /\ Len(rn.replaceRules) = Len(config.ReplaceRules)
             /\ \A i \in 1..Len(rn.replaceRules) :
                    /\ rn.replaceRules[i].regexpCompiled
                          = MustCompile(config.ReplaceRules[i].Regexp)
                    /\ rn.replaceRules[i].Regexp = config.ReplaceRules[i].Regexp
                    /\ rn.replaceRules[i].Replacement = config.ReplaceRules[i].Replacement
             /\ lazyCompiles = 0

C9_Witness ==
    /\ built /\ ~err /\ Len(rn.replaceRules) = 2
    /\ lazyCompiles = 0
    /\ \E i \in 1..Len(received) : sent[i].EventKey = <<>> /\ sent[i].Path # <<>>

-----------------------------------------------------------------------------
(* SpecPath: normalizePath called directly on a raw path, and again on its *)
(* own result.                                                             *)

CallNormalizePath(p) ==
    /\ built /\ rn # Nil /\ ~called
    /\ rawPath' = p
    /\ LET result == normalizePath(rn, p)
       IN /\ normalized' = result
          /\ renormalized' = normalizePath(rn, result)
    /\ called' = TRUE
    /\ UNCHANGED <<config, rn, err, built, runVars>>

InitPath ==
    /\ config \in PathConfigs
    /\ rn = Nil /\ err = FALSE /\ built = FALSE
    /\ InitRun /\ InitCall

NextPath ==
    \/ NewFromConfig
    \/ \E p \in Paths : CallNormalizePath(p)

SpecPath == InitPath /\ [][NextPath]_vars

-----------------------------------------------------------------------------
(* Properties of normalizePath, checked under SpecPath.                    *)

\* The patterns of the rules are those of the configuration.
Pattern(k) == rn.replaceRules[k].Regexp
Replacement(k) == rn.replaceRules[k].Replacement

\* No rule matches path.
NoRuleMatches(path) ==
    \A k \in 1..Len(rn.replaceRules) : ~MatchString(Pattern(k), path)

\* No rule's replacement matches the pattern of an earlier rule.
NoReplacementMatchesEarlier ==
    \A j, k \in 1..Len(rn.replaceRules) :
        j < k => ~MatchString(Pattern(j), Replacement(k))

\* C4 as stated: normalizePath is idempotent whenever no rule's
\* replacement matches an earlier rule's pattern.
C4_Idempotent ==
    (called /\ NoReplacementMatchesEarlier) => renormalized = normalized

\* C4, amended: normalizePath(normalizePath(p)) = normalizePath(p) for
\* every path p and every configuration in which no rewrite rule's pattern
\* matches normalizePath(p).
C4_IdempotentUnlessRewritten ==
    (called /\ NoRuleMatches(normalized)) => renormalized = normalized

C4_Witness ==
    /\ called /\ Len(rn.replaceRules) = 2
    /\ NoRuleMatches(normalized)
    /\ rawPath = <<"42", "/", "images.png">>
    /\ normalized = <<"0", "/", ":image">>
    /\ renormalized = normalized

RECURSIVE C6_After(_)
\* The path after the first k rules, by the claim: a rule that matches
\* gives its Replacement, a rule that does not leaves the path.
C6_After(k) ==
    IF k = 0 THEN rawPath
    ELSE IF MatchString(Pattern(k), C6_After(k - 1)) THEN Replacement(k)
    ELSE C6_After(k - 1)

\* The result of the segment heuristics on a path that is cleaned and split.
Sanitized(path) ==
    Join(sanitizeItems(rn, Split(Clean(path), pathItemsSeparator)), pathItemsSeparator)

\* C6: on a non-empty path the rules run in the configured order, each on
\* the output of the one before, a matching rule giving its Replacement
\* as the whole path, and the path is cleaned, split and sanitized only
\* after the last rule: /42 under the rule ^/42$ -> /legacy gives /legacy
\* whatever the toggles, and under the rule ^/0$ -> /users it is not
\* rewritten, although numbers make it /0.
C6_RulesFirstInOrder ==
    (called /\ rawPath # <<>>) =>
        /\ normalized = Sanitized(C6_After(Len(rn.replaceRules)))
        /\ (rawPath = <<"/", "42">> /\ Len(rn.replaceRules) = 1) =>
            /\ Pattern(1) = reExact42 => normalized = <<"/", "legacy">>
            /\ Pattern(1) = reExact0 =>
                  normalized = <<"/", IF rn.sanitizeNumbers THEN "0" ELSE "42">>

C6_Witness ==
    /\ called /\ Len(rn.replaceRules) = 2
    /\ ~MatchString(Pattern(2), rawPath)
    /\ MatchString(Pattern(1), rawPath)
    /\ MatchString(Pattern(2), Replacement(1))
    /\ rn.sanitizeNumbers
    /\ normalized = Replacement(2)

\* The segments the heuristics see, and what they made of them.
ItemsIn == Split(Clean(applyRules(rn.replaceRules, rawPath, 1)), pathItemsSeparator)
ItemsOut == Split(normalized, pathItemsSeparator)

\* The heuristics of every segment, in their order: toggle, test, placeholder.
Heuristics(item) ==
    <<[on |-> rn.sanitizeHashes, hit |-> IsMD5(item) \/ IsSHA1(item) \/ IsSHA256(item),
       placeholder |-> hashPlaceholder],
      [on |-> rn.sanitizeNumbers, hit |-> IsNumeric(item) \/ IsHexadecimal(item),
       placeholder |-> numberPlaceholder],
      [on |-> rn.sanitizeUids, hit |-> IsUUID(item) \/ IsUUIDv4(item),
       placeholder |-> uuidPlaceholder],
      [on |-> rn.sanitizeIps, hit |-> IsIP(item), placeholder |-> ipPlaceholder]>>

\* The heuristics of the last segment alone.
LastHeuristics(item) ==
    <<[on |-> rn.sanitizeImages, hit |-> imageExtensionRegex(item),
       placeholder |-> imagePlaceholder],
      [on |-> rn.sanitizeFonts, hit |-> fontExtensionRegex(item),
       placeholder |-> fontPlaceholder]>>

\* The indexes of the heuristics that are enabled and match.
Matching(hs) == {k \in 1..Len(hs) : hs[k].on /\ hs[k].hit}

\* The placeholder of the first of them.
FirstMatch(hs) == hs[CHOOSE k \in Matching(hs) : \A l \in Matching(hs) : k <= l].placeholder

\* C7: every non-empty segment becomes the placeholder of the first of
\* hashes, numbers, uuids, ips that is enabled and matches it; an MD5
\* segment becomes :hash with hashes and numbers enabled and 0 with
\* numbers alone; a segment no enabled heuristic matches, and an empty
\* one, stays as it is.
C7_FirstEnabledHeuristic ==
    (called /\ rawPath # <<>>) =>
        /\ Len(ItemsOut) = Len(ItemsIn)
        /\ \A i \in 1..Len(ItemsIn) :
            LET item == ItemsIn[i]
                hs == IF i = Len(ItemsIn) THEN Heuristics(item) \o LastHeuristics(item)
                      ELSE Heuristics(item)
            IN /\ item = "" => ItemsOut[i] = ""
               /\ (item # "" /\ Matching(Heuristics(item)) # {}) =>
                    ItemsOut[i] = FirstMatch(Heuristics(item))
               /\ (item # "" /\ Matching(hs) = {}) => ItemsOut[i] = item
               /\ (item = md5Item /\ rn.sanitizeNumbers) =>
                    ItemsOut[i] = IF rn.sanitizeHashes THEN ":hash" ELSE "0"

C7_Witness ==
    /\ called /\ rn.sanitizeHashes /\ rn.sanitizeNumbers
    /\ rawPath = <<"/", md5Item>>
    /\ normalized = <<"/", ":hash">>

\* C8: :image and :font are given only to the last segment of the cleaned
\* path, and only when none of hashes, numbers, uuids, ips matched it: a
\* segment before the last keeps its image or font extension, a last
\* segment with an image extension becomes :image when images is enabled,
\* and one with a font extension becomes :font when fonts is enabled and
\* images did not match.
C8_AssetsOnlyLast ==
    (called /\ rawPath # <<>>) =>
        /\ Len(ItemsOut) = Len(ItemsIn)
        /\ \A i \in 1..Len(ItemsIn) :
            LET item == ItemsIn[i]
                asset == imageExtensionRegex(item) \/ fontExtensionRegex(item)
            IN /\ (asset /\ i < Len(ItemsIn)) => ItemsOut[i] = item
               /\ (asset /\ ItemsOut[i] \in {imagePlaceholder, fontPlaceholder}) =>
                    i = Len(ItemsIn) /\ Matching(Heuristics(item)) = {}
               /\ (i = Len(ItemsIn) /\ Matching(Heuristics(item)) = {}
                        /\ Matching(LastHeuristics(item)) # {}) =>
                    ItemsOut[i] = FirstMatch(LastHeuristics(item))

C8_Witness ==
    /\ called /\ rn.sanitizeImages /\ rn.sanitizeFonts
    /\ rawPath = <<"images.png", "/", "font.woff">>
    /\ normalized = <<"images.png", "/", ":font">>

\* C10: normalizePath("") is "/" under every configuration, the rules not
\* being applied to it, and every other path is rewritten by the rules,
\* cleaned and sanitized.
C10_EmptyPath ==
    called =>
        IF rawPath = <<>> THEN normalized = <<"/">>
        ELSE normalized = Sanitized(applyRules(rn.replaceRules, rawPath, 1))

C10_Witness ==
    /\ called /\ rawPath = <<>>
    /\ Len(rn.replaceRules) > 0 /\ Pattern(1) = reAny
    /\ normalized = <<"/">>

=============================================================================
